---- MODULE Spec2Model ----
(***************************************************************************)
(* Model of the bar-by-bar simulation engine of bn_backtest_framework      *)
(* (src/backtest/backtest.py, class Backtest) together with the records it *)
(* works on (Order, Position) and the PositionsBook facade.                *)
(*                                                                         *)
(* Optional fields (Python None) are modelled as sequences of length <= 1: *)
(* None is << >> and a present value v is << v >>.                         *)
(* Prices, quantities and cash are exact numbers; the input domain is      *)
(* chosen so that every value / price division of the engine is exact.     *)
(***************************************************************************)
EXTENDS Integers, Sequences, FiniteSets, TLC

(***************************************************************************)
(* Bounds of the model.                                                    *)
(***************************************************************************)
\* number of bars of the input table
MaxBars == 3
\* largest number of orders the strategy returns over a whole run
MaxEmitted == 3

(***************************************************************************)
(* Optional values.                                                        *)
(***************************************************************************)
None == << >>

Some(v) == << v >>

IsNone(x) == x = None

Val(x) == x[1]

(***************************************************************************)
(* Input data: bars of an OHLCV table.  Two bar shapes around the limit    *)
(* price 3: a low bar that fills a buy limit at 3 and no sell limit, and a *)
(* high bar that fills a sell limit at 3 and no buy limit.                 *)
(***************************************************************************)
BarShapes ==
    { [Open |-> 1, High |-> 2, Low |-> 1, Close |-> 2, Volume |-> 5],
      [Open |-> 4, High |-> 6, Low |-> 4, Close |-> 6, Volume |-> 5] }

\* the index label (timestamp) of the k-th row, k counted from 0
Timestamp(k) == 10 * (k + 1)

MkBar(k, shape) ==
    [name |-> Timestamp(k), Open |-> shape.Open, High |-> shape.High,
     Low |-> shape.Low, Close |-> shape.Close, Volume |-> shape.Volume]

\* the engine reads no field of the first bar (every fill is taken from a
\* next bar), so the tables differ from their second bar on
FirstBarShape == [Open |-> 1, High |-> 2, Low |-> 1, Close |-> 2, Volume |-> 5]

DataTables ==
    { [k \in 1..MaxBars |-> MkBar(k - 1, IF k = 1 THEN FirstBarShape ELSE f[k])]
        : f \in [2..MaxBars -> BarShapes] }

StartingEquities == {12}

(***************************************************************************)
(* Orders the strategy may return.                                         *)
(***************************************************************************)
Quantities == {1, -1}

\* multiples of every Open and limit price, so value / price is exact
Values == {12}

LimitPrices == {3}

\* the ids Exit orders name; Position.id is the decimal string of the
\* position's ordinal in the ledger
PositionIds == { ToString(1), ToString(2) }

MkOrder(a, q, v, p, id) ==
    [action |-> a, quantity |-> q, value |-> v, price |-> p, position_id |-> id]

OptPrices == {None} \cup { Some(p) : p \in LimitPrices }

EnterOrders ==
    { MkOrder("enter", Some(q), None, p, None) : q \in Quantities, p \in OptPrices }
    \cup { MkOrder("enter", None, Some(v), p, None) : v \in Values, p \in OptPrices }

ExitOrders ==
    { MkOrder("exit", None, None, p, Some(id)) : p \in OptPrices, id \in PositionIds }

MalformedOrders ==
    { MkOrder("enter", Some(1), Some(12), None, None),
      MkOrder("enter", None, None, None, None),
      MkOrder("hold", None, None, None, None),
      MkOrder("exit", None, None, None, None) }

OrderUniverse == EnterOrders \cup ExitOrders \cup MalformedOrders

\* the lists of n orders with at most one malformed order among them
OrderLists(n) ==
    { os \in [1..n -> OrderUniverse] :
        Cardinality({ k \in 1..n : os[k] \in MalformedOrders }) <= 1 }

(***************************************************************************)
(* State.                                                                  *)
(***************************************************************************)
VARIABLES
    data,             \* Backtest.data: the table of bars
    starting_equity,  \* Backtest.starting_equity
    cash_balance,     \* Backtest.cash_balance
    positions,        \* Backtest.positions: the ledger
    open_orders,      \* Backtest.open_orders: the open order book
    i,                \* loop variable of run()
    pc,               \* position of run(): "loop", "on_candle", "orders", "done", "error"
    err,              \* the exception that ended run(), "" if none
    orders,           \* the list returned by the last strategy call
    calls,            \* record of the strategy calls made so far
    emitted,          \* number of orders the strategy has returned so far
    long_only,        \* the strategy has returned only market long Enters and Exits
    pnl_df,           \* Backtest.pnl_df: the table _calculate_pnl builds, << >> before
    log,              \* the _fulfill_order calls of the current step
    step_cash         \* cash_balance at the end of each completed step

vars == << data, starting_equity, cash_balance, positions, open_orders,
           i, pc, err, orders, calls, emitted, long_only, pnl_df, log, step_cash >>

(***************************************************************************)
(* Position                                                                *)
(***************************************************************************)
is_open(pos) == IsNone(pos.exit_time)

is_closed(pos) == ~ IsNone(pos.exit_time)

(***************************************************************************)
(* Order.is_limit is used by run() but is not defined in order.py; it is   *)
(* taken from the data model: a price is present iff the order is a limit  *)
(* order.                                                                  *)
(***************************************************************************)
is_limit(order) == ~ IsNone(order.price)

(***************************************************************************)
(* Sequence helpers.                                                       *)
(***************************************************************************)
RECURSIVE SumSeq(_)
SumSeq(s) == IF s = << >> THEN 0 ELSE Head(s) + SumSeq(Tail(s))

Abs(x) == IF x < 0 THEN -x ELSE x

\* the first of the indices ks of a list, 0 if there is none: where a search
\* through the list from its head stops
FirstIndex(ks) ==
    IF ks = {} THEN 0 ELSE CHOOSE k \in ks : \A j \in ks : k <= j

\* variant: drops every element equal to x
ListRemoveEvery(s, x) == SelectSeq(s, LAMBDA y : y # x)

\* list.remove(x): drops the first element equal to x
ListRemove(s, x) ==
    LET k == FirstIndex({ j \in 1..Len(s) : s[j] = x })
    IN  IF k = 0 THEN s
        ELSE SubSeq(s, 1, k - 1) \o SubSeq(s, k + 1, Len(s))

(***************************************************************************)
(* The engine object: the fields of Backtest that run() changes, with the  *)
(* pending exception and the record of the _fulfill_order calls.           *)
(***************************************************************************)
Engine(cash, ps, book) ==
    [cash_balance |-> cash, positions |-> ps, open_orders |-> book,
     err |-> "", log |-> << >>]

\* variant: the ledger without the is_open filter
GetOpenPositionsUnfiltered(ps) == ps

\* Backtest._get_open_positions
GetOpenPositions(ps) == SelectSeq(ps, is_open)

\* Python truth value of an optional number: None and 0 are false
Truthy(x) == ~ IsNone(x) /\ Val(x) # 0

\* variant: the lookup of _is_buy_order made among the open positions only
IsBuyOrderRaisesAmongOpen(ps, order) ==
    /\ order.action = "exit"
    /\ \A k \in 1..Len(ps) : is_open(ps[k]) => Some(ps[k].id) # order.position_id

\* the generator of _is_buy_order is exhausted: next() raises StopIteration
IsBuyOrderRaises(ps, order) ==
    /\ order.action = "exit"
    /\ \A k \in 1..Len(ps) : Some(ps[k].id) # order.position_id

\* Backtest._is_buy_order
IsBuyOrder(ps, order) ==
    IF order.action = "exit"
    THEN ps[FirstIndex({ k \in 1..Len(ps) : Some(ps[k].id) = order.position_id })].quantity < 0
    ELSE IF Truthy(order.quantity) THEN Val(order.quantity) > 0
         ELSE Val(order.value) > 0

\* Backtest._is_limit_order_condition_met
IsLimitOrderConditionMet(ps, order, next_interval_data) ==
    IF IsBuyOrder(ps, order)
    THEN next_interval_data.Low <= Val(order.price)
    ELSE next_interval_data.High >= Val(order.price)

\* the notional a resting Enter buy order locks
LockedNotional(order) ==
    IF Truthy(order.quantity) THEN Val(order.quantity) * Val(order.price)
    ELSE Val(order.value)

\* Backtest._calculate_buying_power
CalculateBuyingPower(self, price) ==
    LET open_short_positions ==
            SelectSeq(GetOpenPositions(self.positions), LAMBDA pos : pos.quantity < 0)
        short_exposure ==
            SumSeq([k \in 1..Len(open_short_positions) |->
                        price * Abs(open_short_positions[k].quantity)])
        open_enter_orders ==
            SelectSeq(self.open_orders, LAMBDA order : order.action = "enter")
        open_enter_buy_orders ==
            SelectSeq(open_enter_orders, LAMBDA order : IsBuyOrder(self.positions, order))
        locked_in_open_buy_orders ==
            SumSeq([k \in 1..Len(open_enter_buy_orders) |->
                        LockedNotional(open_enter_buy_orders[k])])
    IN  self.cash_balance - short_exposure - locked_in_open_buy_orders

\* order.quantity = order.value / execution_price, done in place on the order
ResolveQuantity(order, execution_price) ==
    IF order.action = "enter" /\ ~ IsNone(order.value)
    THEN [order EXCEPT !.quantity = Some(Val(order.value) \div execution_price)]
    ELSE order

\* variant: the test only asks for a buying power that is not negative
NegativeBuyingPower(self, check_buying_power, execution_price, entry_cost) ==
    check_buying_power /\ CalculateBuyingPower(self, execution_price) < 0

\* variant: the test is made whether or not it was asked for
InsufficientBuyingPowerUnasked(self, check_buying_power, execution_price, entry_cost) ==
    CalculateBuyingPower(self, execution_price) < entry_cost

\* the buying-power test of a market Enter
InsufficientBuyingPower(self, check_buying_power, execution_price, entry_cost) ==
    check_buying_power /\ CalculateBuyingPower(self, execution_price) < entry_cost

\* one entry of the record of _fulfill_order calls
\* (pos: ledger index of the position closed or created, 0 if none;
\*  bp: the buying power the test saw; before, cash: cash_balance before, after)
LogEntry(order, execution_price, execution_time, check_buying_power, k, bp, raised, before, cash) ==
    [order |-> order, price |-> execution_price, time |-> execution_time,
     market |-> check_buying_power, pos |-> k, bp |-> bp, raised |-> raised,
     before |-> before, cash |-> cash]

\* variant: the exit price is written, the exit time is not
ClosePositionPriceOnly(pos, execution_price, execution_time) ==
    [pos EXCEPT !.exit_price = Some(execution_price)]

\* the two assignments that close a position
ClosePosition(pos, execution_price, execution_time) ==
    [pos EXCEPT !.exit_price = Some(execution_price),
                !.exit_time = Some(execution_time)]

\* variant: the id counts the open positions
NewPositionIdAmongOpen(ps) == ToString(Len(GetOpenPositions(ps)) + 1)

\* the id of the next position: f"{len(self.positions) + 1}"
NewPositionId(ps) == ToString(Len(ps) + 1)

\* Backtest._fulfill_order
FulfillOrder(self, order, execution_price, execution_time, check_buying_power) ==
    IF order.action = "exit"
    THEN LET open == GetOpenPositions(self.positions)
             j == FirstIndex({ n \in 1..Len(open) : Some(open[n].id) = order.position_id })
             \* the ledger index of the position object the loop stopped at
             k == IF j = 0 THEN 0
                  ELSE FirstIndex({ n \in 1..Len(self.positions) : self.positions[n] = open[j] })
             cash == IF k = 0 THEN self.cash_balance
                     ELSE self.cash_balance + self.positions[k].quantity * execution_price
         IN  [self EXCEPT
                !.positions = IF k = 0 THEN @
                              ELSE [@ EXCEPT ![k] = ClosePosition(@, execution_price,
                                                                  execution_time)],
                !.cash_balance = cash,
                !.log = Append(@, LogEntry(order, execution_price, execution_time,
                                           check_buying_power, k, None, FALSE,
                                           self.cash_balance, cash))]
    ELSE IF order.action = "enter"
    THEN LET resolved == ResolveQuantity(order, execution_price)
         IN  IF IsNone(resolved.quantity)
             THEN [self EXCEPT
                     !.err = "TypeError",
                     !.log = Append(@, LogEntry(order, execution_price, execution_time,
                                                check_buying_power, 0, None, TRUE,
                                                self.cash_balance, self.cash_balance))]
             ELSE
             LET quantity == Val(resolved.quantity)
                 entry_cost == quantity * execution_price
                 bp == IF check_buying_power
                       THEN Some(CalculateBuyingPower(self, execution_price))
                       ELSE None
                 new_position ==
                     [id |-> NewPositionId(self.positions),
                      entry_time |-> execution_time,
                      entry_price |-> execution_price,
                      exit_price |-> None,
                      exit_time |-> None,
                      quantity |-> quantity]
             IN  IF InsufficientBuyingPower(self, check_buying_power,
                                            execution_price, entry_cost)
                 THEN [self EXCEPT
                         !.err = "ValueError: Insufficient buying power",
                         !.log = Append(@, LogEntry(order, execution_price,
                                                    execution_time, check_buying_power,
                                                    0, bp, TRUE, self.cash_balance,
                                                    self.cash_balance))]
                 ELSE [self EXCEPT
                         !.positions = Append(@, new_position),
                         !.cash_balance = @ - entry_cost,
                         !.log = Append(@, LogEntry(order, execution_price,
                                                    execution_time, check_buying_power,
                                                    Len(self.positions) + 1, bp, FALSE,
                                                    self.cash_balance,
                                                    self.cash_balance - entry_cost))]
    ELSE self

(***************************************************************************)
(* The passes of one iteration of run().                                   *)
(***************************************************************************)
\* the validations at the head of the iteration; "" if the order passes
ValidateOrder(order) ==
    IF order.action = "enter" /\ (IsNone(order.quantity) <=> IsNone(order.value))
    THEN "ValueError: Provide exactly one of 'quantity' or 'value'"
    ELSE IF order.action \notin {"enter", "exit"}
    THEN "ValueError: Invalid action"
    ELSE IF order.action = "exit" /\ IsNone(order.position_id)
    THEN "ValueError: Position ID must be provided"
    ELSE ""

\* variant: only the first order of the list is validated
ValidateFirstOrder(os) ==
    IF os = << >> THEN "" ELSE ValidateOrder(os[1])

\* the validation loop over the returned list: the first failure is raised
ValidateOrders(os) ==
    LET k == FirstIndex({ j \in 1..Len(os) : ValidateOrder(os[j]) # "" })
    IN  IF k = 0 THEN "" ELSE ValidateOrder(os[k])

\* variant: the list in the order the strategy returned it
Unsorted(os) == os

\* sorted(orders, key = 0 if exit else 1): stable, exits first
SortedExitFirst(os) ==
    SelectSeq(os, LAMBDA order : order.action = "exit")
    \o SelectSeq(os, LAMBDA order : order.action # "exit")

\* variant: the Close of the bar
MarketExecutionAtClose(next_interval_data) == next_interval_data.Close

\* the price a market order executes at
MarketExecutionPrice(next_interval_data) == next_interval_data.Open

\* variant: the limit orders of the step are not in the book yet
UpdateOpenOrdersLater(self, limit_orders) == self

\* Backtest._update_open_orders
UpdateOpenOrders(self, limit_orders) ==
    [self EXCEPT !.open_orders = @ \o limit_orders]

RECURSIVE FulfillEach(_, _, _)
\* the loop of _fulfill_market_orders; an exception ends it
FulfillEach(self, os, next_interval_data) ==
    IF os = << >> \/ self.err # "" THEN self
    ELSE FulfillEach(FulfillOrder(self, Head(os),
                                  MarketExecutionPrice(next_interval_data),
                                  next_interval_data.name, TRUE),
                     Tail(os), next_interval_data)

\* Backtest._fulfill_market_orders
FulfillMarketOrders(self, market_orders, next_interval_data) ==
    FulfillEach(self, SortedExitFirst(market_orders), next_interval_data)

\* variant: the Open of the bar
LimitExecutionAtOpen(order, next_interval_data) == next_interval_data.Open

\* the price a limit order executes at: execution_price=order.price
LimitExecutionPrice(order, next_interval_data) == Val(order.price)

RECURSIVE LimitLoop(_, _, _)
\* the loop of _fulfill_limit_orders: it walks self.open_orders by index
\* (k is the iterator's index, from 1) while the body removes from that list
LimitLoop(self, k, next_interval_data) ==
    IF self.err # "" \/ k > Len(self.open_orders) THEN self
    ELSE LET order == self.open_orders[k]
         IN  IF IsBuyOrderRaises(self.positions, order)
             THEN [self EXCEPT !.err = "StopIteration"]
             ELSE IF IsLimitOrderConditionMet(self.positions, order, next_interval_data)
             THEN LET execution_price == LimitExecutionPrice(order, next_interval_data)
                      resolved == ResolveQuantity(order, execution_price)
                      filled == FulfillOrder(self, order, execution_price,
                                             next_interval_data.name, FALSE)
                      removed ==
                          [filled EXCEPT !.open_orders =
                              ListRemove([@ EXCEPT ![k] = resolved], resolved)]
                  IN  LimitLoop(removed, k + 1, next_interval_data)
             ELSE LimitLoop(self, k + 1, next_interval_data)

\* Backtest._fulfill_limit_orders
FulfillLimitOrders(self, next_interval_data) ==
    LimitLoop(self, 1, next_interval_data)

\* variant: the slice reaches one bar further
HistoricalDataThroughNext(k) == SubSeq(data, 1, k + 2)

\* data.iloc[: i + 1]
HistoricalData(k) == SubSeq(data, 1, k + 1)

\* data.iloc[i + 1]
NextData(k) == data[k + 2]

\* the part of an iteration of run() after the validations
ProcessOrders(self, os, next_data) ==
    LET limit_orders == SelectSeq(os, is_limit)
        market_orders == SelectSeq(os, LAMBDA order : ~ is_limit(order))
        updated == UpdateOpenOrders(self, limit_orders)
        after_market == FulfillMarketOrders(updated, market_orders, next_data)
    IN  IF after_market.err # "" THEN after_market
        ELSE FulfillLimitOrders(after_market, next_data)

(***************************************************************************)
(* PositionsBook                                                           *)
(***************************************************************************)
\* PositionsBook.open_positions
open_positions(ps) == SelectSeq(ps, is_open)

\* variant: an Exit order for every position of the list, open or closed
CloseEveryPosition(ps) ==
    [k \in 1..Len(ps) |-> MkOrder("exit", None, None, None, Some(ps[k].id))]

\* PositionsBook.close
close(ps) ==
    [k \in 1..Len(open_positions(ps)) |->
        MkOrder("exit", None, None, None, Some(open_positions(ps)[k].id))]

(***************************************************************************)
(* The P&L pass.  A number that pandas leaves as NaN is None here.         *)
(***************************************************************************)
\* pnl_df.index.get_loc(t): the row whose label is t, rows counted from 0
GetLoc(t) == CHOOSE k \in 0..(Len(data) - 1) : data[k + 1].name = t

\* pnl_df.index[k] for k counted from 0, a negative k counted from the end
IndexAt(k) == IF k < 0 THEN data[Len(data) + k + 1].name ELSE data[k + 1].name

\* the label of the last row a position's quantity is written to
LastQuantityIdx(position) ==
    IndexAt(IF is_closed(position) THEN GetLoc(Val(position.exit_time)) - 1 ELSE -1)

\* variant: the exit value is added from the row after exit_time on
PnlCashBalanceExitLater(ps, t) ==
    starting_equity
    - SumSeq([k \in 1..Len(ps) |->
                IF ps[k].entry_time <= t THEN ps[k].entry_price * ps[k].quantity ELSE 0])
    + SumSeq([k \in 1..Len(ps) |->
                IF is_closed(ps[k]) /\ Val(ps[k].exit_time) < t
                THEN Val(ps[k].exit_price) * ps[k].quantity ELSE 0])

\* the cash_balance series at the row labelled t
PnlCashBalance(ps, t) ==
    starting_equity
    - SumSeq([k \in 1..Len(ps) |->
                IF ps[k].entry_time <= t THEN ps[k].entry_price * ps[k].quantity ELSE 0])
    + SumSeq([k \in 1..Len(ps) |->
                IF is_closed(ps[k]) /\ Val(ps[k].exit_time) <= t
                THEN Val(ps[k].exit_price) * ps[k].quantity ELSE 0])

\* the column pos-<id>-value at row b (counted from 1)
PnlPositionValue(position, b) ==
    LET qty == IF position.entry_time <= data[b].name
                  /\ data[b].name <= LastQuantityIdx(position)
               THEN position.quantity ELSE 0
    IN  qty * data[b].Close

\* Backtest._calculate_pnl: with no position the frame of value columns is
\* empty, its row sums are an empty series, and the sum of the cash series with
\* it is NaN on every row
CalculatePnl(ps) ==
    [b \in 1..Len(data) |->
        LET cash == PnlCashBalance(ps, data[b].name)
            pos_values == [k \in 1..Len(ps) |-> PnlPositionValue(ps[k], b)]
            equity == IF ps = << >> THEN None ELSE Some(cash + SumSeq(pos_values))
        IN  [cash_balance |-> cash,
             values |-> pos_values,
             equity |-> equity,
             total_pnl |-> IF IsNone(equity) THEN None
                           ELSE Some(Val(equity) - starting_equity)]]

(***************************************************************************)
(* Behaviour of run().                                                     *)
(***************************************************************************)
Self == Engine(cash_balance, positions, open_orders)

\* a market order that enters long or exits
IsLongMarket(order) ==
    /\ ~ is_limit(order)
    /\ \/ order.action = "exit"
       \/ /\ order.action = "enter"
          /\ \/ ~ IsNone(order.quantity) /\ IsNone(order.value) /\ Val(order.quantity) > 0
             \/ IsNone(order.quantity) /\ ~ IsNone(order.value) /\ Val(order.value) > 0

Init ==
    /\ data \in DataTables
    /\ starting_equity \in StartingEquities
    /\ cash_balance = starting_equity
    /\ positions = << >>
    /\ open_orders = << >>
    /\ i = 0
    /\ pc = "loop"
    /\ err = ""
    /\ orders = << >>
    /\ calls = << >>
    /\ emitted = 0
    /\ long_only = TRUE
    /\ pnl_df = << >>
    /\ log = << >>
    /\ step_cash = << >>

\* the number the sums of _calculate_buying_power make of a bar passed as the
\* price: price * abs(quantity) is then a Series, and np.sum over the list of
\* these Series adds up every field of every one of them
SeriesSum(bar) == bar.Open + bar.High + bar.Low + bar.Close + bar.Volume

\* variant: the cash balance alone, nothing reserved
HeadCashBalance(self, k) == self.cash_balance

\* the buying power run() computes at the head of iteration k: the call is
\* _calculate_buying_power(next_data), the whole row
HeadBuyingPower(self, k) == CalculateBuyingPower(self, SeriesSum(NextData(k)))

\* head of an iteration: the buying power computed is not negative
RunNextBar ==
    /\ pc = "loop"
    /\ i < Len(data) - 1
    /\ HeadBuyingPower(Self, i) >= 0
    /\ pc' = "on_candle"
    /\ orders' = << >>
    /\ log' = << >>
    /\ UNCHANGED << data, starting_equity, cash_balance, positions, open_orders,
                    i, err, calls, emitted, long_only, pnl_df, step_cash >>

\* head of an iteration: negative buying power ends the run
RunLiquidated ==
    /\ pc = "loop"
    /\ i < Len(data) - 1
    /\ HeadBuyingPower(Self, i) < 0
    /\ pc' = "error"
    /\ err' = "ValueError: Buying power is negative"
    /\ orders' = << >>
    /\ log' = << >>
    /\ UNCHANGED << data, starting_equity, cash_balance, positions, open_orders,
                    i, calls, emitted, long_only, pnl_df, step_cash >>

\* strategy.on_candle(historical_data, positions_book) returns a list
RunOnCandle ==
    /\ pc = "on_candle"
    /\ \E n \in 0..(MaxEmitted - emitted) :
          /\ orders' \in OrderLists(n)
          /\ emitted' = emitted + n
    /\ long_only' = (long_only /\ \A k \in 1..Len(orders') : IsLongMarket(orders'[k]))
    /\ calls' = Append(calls, [i |-> i,
                               bars |-> Len(HistoricalData(i)),
                               view |-> HistoricalData(i)[Len(HistoricalData(i))].name])
    /\ pc' = "orders"
    /\ UNCHANGED << data, starting_equity, cash_balance, positions, open_orders,
                    i, err, pnl_df, log, step_cash >>

\* a returned order fails validation
RunInvalidOrder ==
    /\ pc = "orders"
    /\ ValidateOrders(orders) # ""
    /\ pc' = "error"
    /\ err' = ValidateOrders(orders)
    /\ UNCHANGED << data, starting_equity, cash_balance, positions, open_orders,
                    i, orders, calls, emitted, long_only, pnl_df, log, step_cash >>

\* the returned orders are valid: book update, market pass, limit pass
RunProcessOrders ==
    /\ pc = "orders"
    /\ ValidateOrders(orders) = ""
    /\ LET after == ProcessOrders(Self, orders, NextData(i))
       IN  /\ cash_balance' = after.cash_balance
           /\ positions' = after.positions
           /\ open_orders' = after.open_orders
           /\ log' = after.log
           /\ err' = after.err
           /\ pc' = IF after.err # "" THEN "error" ELSE "loop"
           /\ i' = IF after.err # "" THEN i ELSE i + 1
           /\ step_cash' = IF after.err # "" THEN step_cash
                           ELSE Append(step_cash, after.cash_balance)
    /\ UNCHANGED << data, starting_equity, orders, calls, emitted, long_only, pnl_df >>

\* the loop is over: _calculate_pnl builds the table
RunFinish ==
    /\ pc = "loop"
    /\ i >= Len(data) - 1
    /\ pc' = "done"
    /\ pnl_df' = CalculatePnl(positions)
    /\ UNCHANGED << data, starting_equity, cash_balance, positions, open_orders,
                    i, err, orders, calls, emitted, long_only, log, step_cash >>

Next ==
    \/ RunNextBar
    \/ RunLiquidated
    \/ RunOnCandle
    \/ RunInvalidOrder
    \/ RunProcessOrders
    \/ RunFinish

Spec == Init /\ [][Next]_vars

(***************************************************************************)
(* Properties.                                                             *)
(***************************************************************************)
EntryCosts(ps) ==
    SumSeq([k \in 1..Len(ps) |-> ps[k].quantity * ps[k].entry_price])

ExitProceeds(ps) ==
    SumSeq([k \in 1..Len(ps) |->
              IF is_closed(ps[k]) THEN ps[k].quantity * Val(ps[k].exit_price) ELSE 0])

\* the cash balance a ledger accounts for
LedgerCash(ps) == starting_equity - EntryCosts(ps) + ExitProceeds(ps)

\* the ledger as it was right after the n-th _fulfill_order call of the step:
\* the positions created later are dropped, those closed later are still open
LedgerAt(n) ==
    LET later == (n + 1)..Len(log)
        created == { m \in later : log[m].order.action = "enter" /\ log[m].pos # 0 }
    IN  [k \in 1..(Len(positions) - Cardinality(created)) |->
            IF \E m \in later : log[m].order.action = "exit" /\ log[m].pos = k
            THEN [positions[k] EXCEPT !.exit_time = None, !.exit_price = None]
            ELSE positions[k]]

\* C1: in every state of run(), at the step boundaries, after an abort and
\* after every _fulfill_order call, the cash balance is the starting equity
\* minus the entry cost quantity * entry_price of every position of the ledger
\* plus the proceeds quantity * exit_price of every closed position: the
\* proceeds of a position are credited once, however many Exit orders name it.
C1_CashMatchesLedger ==
    /\ cash_balance = LedgerCash(positions)
    /\ \A n \in 1..Len(log) : log[n].cash = LedgerCash(LedgerAt(n))

\* two Exit orders of one step name the same position: the first closes it,
\* the second finds it closed
C1_Witness ==
    \E n \in 1..Len(log) : \E m \in (n + 1)..Len(log) :
        /\ log[n].order.action = "exit" /\ log[m].order.action = "exit"
        /\ log[n].order.position_id = log[m].order.position_id
        /\ log[n].pos # 0
        /\ log[m].pos = 0
        /\ positions[log[n].pos].quantity * Val(positions[log[n].pos].exit_price) # 0

(***************************************************************************)
(* Vocabulary of the limit-order properties.                               *)
(***************************************************************************)
\* the order names a position of the ledger
NamesPosition(ps, order) ==
    \E k \in 1..Len(ps) : Some(ps[k].id) = order.position_id

\* the order names no position that is open
NamesNoOpenPosition(ps, order) ==
    \A k \in 1..Len(ps) : Some(ps[k].id) = order.position_id => is_closed(ps[k])

\* buy direction: an Enter of positive size, or an Exit of a short position
BuyDirection(ps, order) ==
    IF order.action = "exit"
    THEN \E k \in 1..Len(ps) : Some(ps[k].id) = order.position_id /\ ps[k].quantity < 0
    ELSE \/ ~ IsNone(order.quantity) /\ Val(order.quantity) > 0
         \/ IsNone(order.quantity) /\ Val(order.value) > 0

\* the fill condition of a limit order on a bar
ConditionOnBar(ps, order, bar) ==
    IF BuyDirection(ps, order) THEN bar.Low <= Val(order.price)
    ELSE bar.High >= Val(order.price)

\* C2: after a step, every order still in the open order book has a fill
\* condition that does not hold on the step's next bar, and every limit order
\* filled in the step has one that holds: an order of the book is filled in the
\* step if and only if its condition holds on the next bar.
C2_LimitFilledIffConditionMet ==
    (pc = "loop" /\ i >= 1) =>
        /\ \A k \in 1..Len(open_orders) :
              (open_orders[k].action = "exit" => NamesPosition(positions, open_orders[k]))
                  => ~ ConditionOnBar(positions, open_orders[k], data[i + 1])
        /\ \A n \in 1..Len(log) :
              ~ log[n].market => ConditionOnBar(positions, log[n].order, data[i + 1])

\* C3: every closed position of the ledger has exit_time > entry_time.
C3_ExitAfterEntry ==
    \A k \in 1..Len(positions) :
        is_closed(positions[k]) => Val(positions[k].exit_time) > positions[k].entry_time

\* C4 as stated: a _fulfill_order call for an Exit order that matches no open
\* position aborts run().
C4_UnmatchedExitAborts ==
    \A n \in 1..Len(log) :
        (log[n].order.action = "exit" /\ log[n].pos = 0) => pc = "error"

\* C4 as amended: an Exit order fulfilled while its position_id matches no open
\* position is skipped, cash and ledger unchanged and no error raised: a step
\* of market Exits that name no open position leaves cash and ledger as they
\* were and the run goes on, and so does a met limit Exit that names a closed
\* position, which leaves the book.  The run aborts (StopIteration) only when
\* the limit pass examines an Exit whose position_id names no position of the
\* ledger at all.
C4_UnmatchedExitSkippedOrLookupFails ==
    [][ (pc = "orders" /\ ValidateOrders(orders) = "") =>
          LET limit_orders == SelectSeq(orders, is_limit)
              market_orders == SelectSeq(orders, LAMBDA o : ~ is_limit(o))
              book == open_orders \o limit_orders
              Unmatched(o) == o.action = "exit" /\ NamesNoOpenPosition(positions, o)
              Unknown(o) == o.action = "exit" /\ ~ NamesPosition(positions, o)
          IN  /\ \A n \in 1..Len(log') :
                    (log'[n].order.action = "exit" /\ log'[n].pos = 0)
                        => ~ log'[n].raised /\ log'[n].cash = log'[n].before
              /\ (book = << >> /\ \A k \in 1..Len(market_orders) : Unmatched(market_orders[k]))
                    => /\ pc' = "loop" /\ i' = i + 1 /\ err' = ""
                       /\ cash_balance' = cash_balance /\ positions' = positions
              /\ (market_orders = << >> /\ book # << >> /\ Unknown(book[1]))
                    => /\ pc' = "error" /\ err' = "StopIteration"
                       /\ cash_balance' = cash_balance /\ positions' = positions
              /\ ( /\ market_orders = << >> /\ Len(book) = 1
                   /\ Unmatched(book[1]) /\ ~ Unknown(book[1])
                   /\ ConditionOnBar(positions, book[1], data[i + 2]) )
                    => /\ pc' = "loop" /\ i' = i + 1 /\ err' = ""
                       /\ cash_balance' = cash_balance /\ positions' = positions
                       /\ open_orders' = << >>
              /\ err' = "StopIteration"
                    => \E k \in 1..Len(open_orders') :
                          /\ open_orders'[k].action = "exit"
                          /\ ~ NamesPosition(positions', open_orders'[k])
      ]_vars

\* a met limit Exit naming a closed position was fulfilled without effect and
\* the run went on
C4_Witness ==
    /\ pc = "loop"
    /\ \E n \in 1..Len(log) :
          /\ log[n].order.action = "exit" /\ ~ log[n].market /\ log[n].pos = 0
          /\ NamesPosition(positions, log[n].order)

(***************************************************************************)
(* C5                                                                      *)
(***************************************************************************)
\* a malformed order: Enter with both or neither of quantity and value, an
\* action other than enter and exit, Exit without position_id
Malformed(order) ==
    \/ order.action = "enter" /\ ~ IsNone(order.quantity) /\ ~ IsNone(order.value)
    \/ order.action = "enter" /\ IsNone(order.quantity) /\ IsNone(order.value)
    \/ order.action # "enter" /\ order.action # "exit"
    \/ order.action = "exit" /\ IsNone(order.position_id)

\* C5: when the list the strategy returned holds a malformed order, at any
\* place, run() aborts with a validation error and cash balance, ledger and
\* open order book are what they were when the step began.
C5_MalformedAbortsBeforeEffect ==
    [][ (pc = "orders" /\ \E k \in 1..Len(orders) : Malformed(orders[k])) =>
          /\ pc' = "error"
          /\ err' \in { "ValueError: Provide exactly one of 'quantity' or 'value'",
                        "ValueError: Invalid action",
                        "ValueError: Position ID must be provided" }
          /\ cash_balance' = cash_balance
          /\ positions' = positions
          /\ open_orders' = open_orders
      ]_vars

\* the run was aborted by a malformed order that came last in a list whose
\* other orders are a market Enter and a limit order
C5_Witness ==
    /\ pc = "error"
    /\ Len(orders) = 3
    /\ Malformed(orders[3])
    /\ orders[1].action = "enter" /\ ~ is_limit(orders[1]) /\ ~ Malformed(orders[1])
    /\ is_limit(orders[2])
    /\ cash_balance = starting_equity /\ positions = << >> /\ open_orders = << >>

(***************************************************************************)
(* C6 to C10                                                               *)
(***************************************************************************)
IsMarketExit(order) == order.action = "exit" /\ ~ is_limit(order)

\* C6: within a step every market Exit order of the returned list has been
\* fulfilled before the first market Enter order is, wherever they stand in the
\* list; the cash a market Enter is tested against holds the proceeds of every
\* market Exit of the step.
C6_MarketExitsBeforeEnters ==
    \A n \in 1..Len(log) :
        (log[n].market /\ log[n].order.action = "enter") =>
            /\ Cardinality({ m \in 1..(n - 1) : IsMarketExit(log[m].order) })
                 = Cardinality({ k \in 1..Len(orders) : IsMarketExit(orders[k]) })
            /\ \A m \in (n + 1)..Len(log) : ~ IsMarketExit(log[m].order)
            /\ \A m \in 1..(n - 1) :
                 (IsMarketExit(log[m].order) /\ log[m].pos # 0)
                    => log[m].cash = log[m].before
                          + positions[log[m].pos].quantity * log[m].price

\* the strategy returned a market Enter ahead of a market Exit; the Exit was
\* fulfilled first and the Enter was paid out of its proceeds
C6_Witness ==
    /\ Len(orders) = 2 /\ Len(log) = 2
    /\ orders[1].action = "enter" /\ ~ is_limit(orders[1])
    /\ IsMarketExit(orders[2])
    /\ log[1].order = orders[2] /\ log[1].pos # 0
    /\ log[2].order = orders[1] /\ log[2].pos # 0
    /\ log[1].before < log[1].cash - log[2].cash

\* C7: at the head of an iteration, a negative buying power at the Open of
\* the next bar aborts run() with the insolvency error, before the strategy is
\* called and with cash, ledger and order book untouched; the strategy is only
\* called where that buying power is >= 0.  (The number run() tests is
\* HeadBuyingPower, which is never above the buying power at the Open.)
C7_NegativeBuyingPowerAborts ==
    [][ /\ ( /\ pc = "loop" /\ i < Len(data) - 1
             /\ CalculateBuyingPower(Self, data[i + 2].Open) < 0 )
           => /\ pc' = "error"
              /\ err' = "ValueError: Buying power is negative"
              /\ calls' = calls
              /\ cash_balance' = cash_balance
              /\ positions' = positions
              /\ open_orders' = open_orders
        /\ calls' # calls
           => CalculateBuyingPower(Self, data[i + 2].Open) >= 0
      ]_vars

\* the run was liquidated at the head of the second iteration
C7_Witness ==
    /\ pc = "error"
    /\ err = "ValueError: Buying power is negative"
    /\ i = 1
    /\ Len(calls) = 1
    /\ CalculateBuyingPower(Self, data[i + 2].Open) < 0

\* C8: while the strategy has returned nothing but market orders that enter
\* long or exit, the cash balance, which is then the buying power at any price,
\* is >= 0 at the step boundaries and after every fulfilment, and a market Enter
\* whose cost exceeds the buying power raises the insolvency error and is not
\* filled.
C8_LongOnlyNeverNegative ==
    long_only =>
        /\ cash_balance >= 0
        /\ \A b \in 1..Len(data) : CalculateBuyingPower(Self, data[b].Open) = cash_balance
        /\ \A n \in 1..Len(log) :
              /\ log[n].cash >= 0
              /\ log[n].order.action = "enter" =>
                    /\ log[n].bp = Some(log[n].before)
                    /\ LET quantity == IF IsNone(log[n].order.value)
                                       THEN Val(log[n].order.quantity)
                                       ELSE Val(log[n].order.value) \div log[n].price
                       IN  IF quantity * log[n].price > log[n].before
                           THEN /\ log[n].raised /\ log[n].pos = 0
                                /\ log[n].cash = log[n].before
                                /\ pc = "error"
                                /\ err = "ValueError: Insufficient buying power"
                           ELSE /\ ~ log[n].raised
                                /\ log[n].cash = log[n].before - quantity * log[n].price

\* a long-only run aborted on a market Enter it could not pay
C8_Witness ==
    /\ long_only
    /\ err = "ValueError: Insufficient buying power"
    /\ Len(positions) >= 1
    /\ log[Len(log)].raised
    /\ log[Len(log)].before > 0

\* C9: the strategy calls made so far are the calls for i = 0, 1, 2, ... in
\* this order, call i with the bars 0..i and a view marked at bar i; a run that
\* ends normally has made the calls for 0..N-2 and none for the last bar; and
\* when the strategy is called no position of the ledger has an entry or exit
\* time after the timestamp of bar i.
C9_CallsInOrderNoLookAhead ==
    /\ \A k \in 1..Len(calls) :
          /\ calls[k].i = k - 1
          /\ calls[k].bars = k
          /\ calls[k].view = data[k].name
    /\ Len(calls) <= Len(data) - 1
    /\ pc = "done" => Len(calls) = Len(data) - 1
    /\ pc = "orders" =>
          /\ Len(calls) = i + 1
          /\ \A k \in 1..Len(positions) :
                /\ positions[k].entry_time <= data[i + 1].name
                /\ is_closed(positions[k]) => Val(positions[k].exit_time) <= data[i + 1].name

\* the strategy is called for the last but one bar with a ledger that holds
\* a position closed at that very bar
C9_Witness ==
    /\ pc = "orders"
    /\ i = Len(data) - 2
    /\ \E k \in 1..Len(positions) :
          /\ is_closed(positions[k])
          /\ Val(positions[k].exit_time) = data[i + 1].name

\* the bar at which the orders of the last strategy call execute
FillBar == data[calls[Len(calls)].i + 2]

\* C10: a position created by a market Enter of step i has entry_time and
\* entry_price equal to the timestamp and Open of bar i+1, a position closed by
\* a market Exit of step i has exit_time and exit_price equal to them, and no
\* position is entered or exited at bar 0.
C10_MarketFillsAtNextOpen ==
    /\ \A n \in 1..Len(log) :
          (log[n].market /\ log[n].pos # 0) =>
              IF log[n].order.action = "enter"
              THEN /\ positions[log[n].pos].entry_time = FillBar.name
                   /\ positions[log[n].pos].entry_price = FillBar.Open
              ELSE /\ positions[log[n].pos].exit_time = Some(FillBar.name)
                   /\ positions[log[n].pos].exit_price = Some(FillBar.Open)
    /\ \A k \in 1..Len(positions) :
          /\ positions[k].entry_time > data[1].name
          /\ is_closed(positions[k]) => Val(positions[k].exit_time) > data[1].name

\* a step closed a position and opened one, both by market
C10_Witness ==
    \E n \in 1..Len(log) : \E m \in 1..Len(log) :
        /\ log[n].market /\ log[n].order.action = "exit" /\ log[n].pos # 0
        /\ log[m].market /\ log[m].order.action = "enter" /\ log[m].pos # 0
        /\ positions[log[m].pos].entry_price = 4

(***************************************************************************)
(* C11 and C12: the reconstructed table.                                   *)
(***************************************************************************)
\* the value a position contributes at row b: quantity * Close from the bar
\* of its entry through the bar before the bar of its exit, through the last
\* bar while it is open, and 0 on every other bar
HeldValue(position, b) ==
    IF /\ position.entry_time <= data[b].name
       /\ is_open(position) \/ data[b].name < Val(position.exit_time)
    THEN position.quantity * data[b].Close
    ELSE 0

\* C11: in the table run() leaves, on every bar, each position's value column
\* is quantity * Close from its entry bar through the bar before its exit bar
\* and 0 elsewhere, equity is cash_balance plus the sum of the position
\* values, and total_pnl is equity minus the starting equity; for every ledger
\* run() can produce.
C11_EquityIsCashPlusValues ==
    pc = "done" =>
        \A b \in 1..Len(pnl_df) :
            /\ \A k \in 1..Len(positions) :
                  pnl_df[b].values[k] = HeldValue(positions[k], b)
            /\ pnl_df[b].equity
                  = Some(pnl_df[b].cash_balance
                         + SumSeq([k \in 1..Len(positions) |-> HeldValue(positions[k], b)]))
            /\ pnl_df[b].total_pnl
                  = Some(pnl_df[b].cash_balance
                         + SumSeq([k \in 1..Len(positions) |-> HeldValue(positions[k], b)])
                         - starting_equity)

\* C11 for the ledgers that hold a position: the same table identities.
C11_HoldsForNonEmptyLedger ==
    (pc = "done" /\ positions # << >>) => C11_EquityIsCashPlusValues

\* a run ended with a position closed at the bar it was entered at and another
\* one still open, and the table was built
C11_NonEmptyLedgerWitness ==
    /\ pc = "done"
    /\ \E k \in 1..Len(positions) :
          is_closed(positions[k]) /\ Val(positions[k].exit_time) = positions[k].entry_time
    /\ \E k \in 1..Len(positions) : is_open(positions[k])

\* C12: when the strategy returned no order at any step, at the end of run()
\* ledger and open order book are empty, the cash balance is the starting
\* equity, and on every bar of the table equity is the starting equity and
\* total_pnl is 0.
C12_NoOrdersFlatEquity ==
    (pc = "done" /\ emitted = 0) =>
        /\ positions = << >>
        /\ open_orders = << >>
        /\ cash_balance = starting_equity
        /\ \A b \in 1..Len(pnl_df) :
              /\ pnl_df[b].equity = Some(starting_equity)
              /\ pnl_df[b].total_pnl = Some(0)

(***************************************************************************)
(* C13: PositionsBook.close                                                *)
(***************************************************************************)
\* the list is one market Exit order per open position of the ledger, in
\* ledger order, and names no closed position
OneExitPerOpenPosition(ps, os) ==
    /\ Len(os) = Cardinality({ k \in 1..Len(ps) : is_open(ps[k]) })
    /\ \A n \in 1..Len(os) :
          /\ os[n].action = "exit"
          /\ IsNone(os[n].price) /\ IsNone(os[n].quantity) /\ IsNone(os[n].value)
          /\ \E k \in 1..Len(ps) : is_open(ps[k]) /\ os[n].position_id = Some(ps[k].id)
          /\ \A k \in 1..Len(ps) : is_closed(ps[k]) => os[n].position_id # Some(ps[k].id)
    /\ \A k \in 1..Len(ps) :
          is_open(ps[k]) =>
              Cardinality({ n \in 1..Len(os) : os[n].position_id = Some(ps[k].id) }) = 1

\* C13: for every ledger run() reaches, close() is exactly one Exit order
\* without price per open position and none for a closed one; and when the
\* list the strategy returned at step i is close() of the ledger, the step
\* leaves every position that was open closed at the Open and the timestamp of
\* bar i+1.
C13_CloseFlattens ==
    [][ /\ OneExitPerOpenPosition(positions, close(positions))
        /\ OneExitPerOpenPosition(positions', close(positions'))
        /\ (pc = "orders" /\ orders = close(positions)) =>
              \A k \in 1..Len(positions) :
                  is_open(positions[k]) =>
                      /\ positions'[k].id = positions[k].id
                      /\ positions'[k].exit_price = Some(data[i + 2].Open)
                      /\ positions'[k].exit_time = Some(data[i + 2].name)
      ]_vars

\* the strategy returned close() of a ledger with an open position, and the
\* step closed that position at the next bar
C13_Witness ==
    /\ pc = "loop"
    /\ orders # << >>
    /\ orders = close(LedgerAt(0))
    /\ \A k \in 1..Len(positions) : is_closed(positions[k])
    /\ \E n \in 1..Len(log) : log[n].market /\ log[n].pos # 0

(***************************************************************************)
(* C14: the open order book                                                *)
(***************************************************************************)
\* the number of places of the list s that hold x
Count(s, x) == Cardinality({ k \in 1..Len(s) : s[k] = x })

\* the number of fulfilments by the limit pass, in the record fl of a step,
\* of the order x
LimitFills(fl, x) == Cardinality({ n \in 1..Len(fl) : ~ fl[n].market /\ fl[n].order = x })

RECURSIVE IsSubSeq(_, _)
\* s is t with some of its elements left out
IsSubSeq(s, t) ==
    IF s = << >> THEN TRUE
    ELSE IF t = << >> THEN FALSE
    ELSE IF Head(s) = Head(t) THEN IsSubSeq(Tail(s), Tail(t))
    ELSE IsSubSeq(s, Tail(t))

\* C14: the open order book only changes in the part of a step that processes
\* the returned orders; it then becomes the old book followed by the limit
\* orders returned, in their order, less one copy of an order for each time
\* the limit pass fulfilled it: an order that was not fulfilled stays, a
\* fulfilled one is gone by the end of the step, an order is fulfilled no more
\* often than it was appended, and no market order is ever in the book.
C14_BookAppendsAndRemovesFilled ==
    [][ /\ \A k \in 1..Len(open_orders') : is_limit(open_orders'[k])
        /\ (pc # "orders" \/ ValidateOrders(orders) # "") => open_orders' = open_orders
        /\ (pc = "orders" /\ ValidateOrders(orders) = "") =>
              LET appended == open_orders \o SelectSeq(orders, is_limit)
              IN  /\ IsSubSeq(open_orders', appended)
                  /\ \A x \in OrderUniverse :
                        /\ LimitFills(log', x) <= Count(appended, x)
                        /\ Count(open_orders', x) = Count(appended, x) - LimitFills(log', x)
                  /\ \A n \in 1..Len(log') :
                        ~ log'[n].market => Count(appended, log'[n].order) >= 1
      ]_vars

\* a step filled an order that had rested in the book since an earlier step
\* and left another order resting
C14_Witness ==
    /\ pc = "loop"
    /\ open_orders # << >>
    /\ \E n \in 1..Len(log) :
          /\ ~ log[n].market
          /\ \A k \in 1..Len(orders) : orders[k] # log[n].order

(***************************************************************************)
(* C15: the ledger                                                         *)
(***************************************************************************)
\* C15: in every step of run() the ledger keeps its positions at their
\* places and may only grow at its end; a position keeps its id, quantity,
\* entry_time and entry_price; a closed position keeps all its fields; and a
\* fulfilled Exit order that names a closed position leaves the cash balance
\* as it was.
C15_LedgerAppendOnlyClosedImmutable ==
    [][ /\ Len(positions') >= Len(positions)
        /\ \A k \in 1..Len(positions) :
              /\ positions'[k].id = positions[k].id
              /\ positions'[k].quantity = positions[k].quantity
              /\ positions'[k].entry_time = positions[k].entry_time
              /\ positions'[k].entry_price = positions[k].entry_price
              /\ is_closed(positions[k]) => positions'[k] = positions[k]
        /\ pc = "orders" =>
              \A n \in 1..Len(log') :
                  ( /\ log'[n].order.action = "exit"
                    /\ \E k \in 1..Len(positions) :
                          /\ is_closed(positions[k])
                          /\ Some(positions[k].id) = log'[n].order.position_id )
                      => log'[n].pos = 0 /\ log'[n].cash = log'[n].before
      ]_vars

\* an Exit order was fulfilled that names a position closed at an earlier bar,
\* at a price other than the one the position was closed at
C15_Witness ==
    /\ pc = "loop"
    /\ \E n \in 1..Len(log) : \E k \in 1..Len(positions) :
          /\ log[n].order.action = "exit"
          /\ log[n].order.position_id = Some(positions[k].id)
          /\ is_closed(positions[k])
          /\ Val(positions[k].exit_time) < log[n].time
          /\ Val(positions[k].exit_price) # log[n].price

(***************************************************************************)
(* C16: well-formed positions                                              *)
(***************************************************************************)
\* the timestamps of the table
Timestamps == { data[b].name : b \in 1..Len(data) }

\* C16: every position of the ledger has exit_time and exit_price both set
\* or both unset and entry_time and entry_price set (a timestamp of the table
\* and a positive price); every position is either open or closed, never both,
\* and the open and the closed positions together are the ledger.
C16_ExitFieldsTogether ==
    /\ \A k \in 1..Len(positions) :
          /\ IsNone(positions[k].exit_time) <=> IsNone(positions[k].exit_price)
          /\ positions[k].entry_time \in Timestamps
          /\ positions[k].entry_price \in Nat \ {0}
          /\ is_closed(positions[k]) =>
                /\ Val(positions[k].exit_time) \in Timestamps
                /\ Val(positions[k].exit_price) \in Nat \ {0}
          /\ is_open(positions[k]) # is_closed(positions[k])
    /\ Len(SelectSeq(positions, is_open)) + Len(SelectSeq(positions, is_closed))
          = Len(positions)

\* the ledger holds a position closed by a limit order and an open one
C16_Witness ==
    /\ \E n \in 1..Len(log) :
          /\ ~ log[n].market /\ log[n].order.action = "exit" /\ log[n].pos # 0
          /\ is_closed(positions[log[n].pos])
    /\ \E k \in 1..Len(positions) : is_open(positions[k])

(***************************************************************************)
(* C17 and C18: the buying-power test of an Enter                          *)
(***************************************************************************)
\* the entry cost of a fulfilled Enter order: quantity * execution price,
\* with quantity = value / execution price for an order given by value
EntryCost(entry) ==
    ( IF IsNone(entry.order.value) THEN Val(entry.order.quantity)
      ELSE Val(entry.order.value) \div entry.price ) * entry.price

\* C17: a limit Enter that the limit pass fulfils is filled whatever the
\* buying power: it never raises, it creates a position and cash is debited by
\* its entry cost.  A market Enter raises the insolvency error exactly when its
\* entry cost exceeds the buying power at the execution price; the run is then
\* aborted, no position is created and cash is not debited.  The insolvency
\* error of an Enter only ever comes from a market Enter.
C17_LimitEnterSkipsBuyingPowerTest ==
    /\ \A n \in 1..Len(log) :
          log[n].order.action = "enter" =>
              IF log[n].market
              THEN /\ ~ IsNone(log[n].bp)
                   /\ log[n].raised <=> EntryCost(log[n]) > Val(log[n].bp)
                   /\ log[n].raised =>
                         /\ n = Len(log)
                         /\ log[n].pos = 0
                         /\ log[n].cash = log[n].before
                         /\ Len(positions) = Len(LedgerAt(n - 1))
                         /\ pc = "error"
                         /\ err = "ValueError: Insufficient buying power"
              ELSE /\ ~ log[n].raised
                   /\ log[n].pos # 0
                   /\ positions[log[n].pos].entry_price = Val(log[n].order.price)
                   /\ log[n].cash = log[n].before - EntryCost(log[n])
    /\ err = "ValueError: Insufficient buying power" =>
          /\ log # << >>
          /\ log[Len(log)].market
          /\ log[Len(log)].order.action = "enter"

\* a limit Enter was filled although the cash balance, and with it the buying
\* power, was below its entry cost; the run went on
C17_Witness ==
    /\ pc = "loop"
    /\ \E n \in 1..Len(log) :
          /\ log[n].order.action = "enter" /\ ~ log[n].market /\ log[n].pos # 0
          /\ EntryCost(log[n]) > 0
          /\ log[n].before < EntryCost(log[n])
          /\ log[n].cash < 0

\* a market Enter was refused for want of buying power
C17_MarketWitness ==
    /\ pc = "error"
    /\ \E n \in 1..Len(log) :
          log[n].order.action = "enter" /\ log[n].market /\ log[n].raised

\* buying power as the data model defines it: cash less |quantity| * price
\* for every open short position less the locked notional of every Enter
\* buy order of the book, quantity * price if quantity is set, else value
ReservedBuyingPower(cash, ps, book, price) ==
    cash
    - SumSeq([k \in 1..Len(ps) |->
                IF is_open(ps[k]) /\ ps[k].quantity < 0
                THEN Abs(ps[k].quantity) * price ELSE 0])
    - SumSeq([k \in 1..Len(book) |->
                IF book[k].action = "enter" /\ BuyDirection(ps, book[k])
                THEN IF ~ IsNone(book[k].quantity)
                     THEN Val(book[k].quantity) * Val(book[k].price)
                     ELSE Val(book[k].value)
                ELSE 0])

\* C18: the limit orders a step returns are in the open order book when the
\* market orders of the step are fulfilled: the buying power a market Enter is
\* tested against is the cash less the open short exposure at the execution
\* price less the locked notional of every Enter buy order of the old book and
\* of the limit orders of this step; a market Enter whose cost exceeds it
\* aborts the run, and the book then holds the limit orders of the step.
C18_SameStepLimitsLockBuyingPower ==
    [][ (pc = "orders" /\ ValidateOrders(orders) = "") =>
          LET book == open_orders \o SelectSeq(orders, is_limit)
          IN  \A n \in 1..Len(log') :
                  (log'[n].market /\ log'[n].order.action = "enter") =>
                      LET bp == ReservedBuyingPower(log'[n].before, LedgerAt(n - 1)',
                                                    book, log'[n].price)
                      IN  /\ log'[n].bp = Some(bp)
                          /\ EntryCost(log'[n]) > bp =>
                                /\ log'[n].raised
                                /\ pc' = "error"
                                /\ err' = "ValueError: Insufficient buying power"
                                /\ open_orders' = book
                                /\ positions' = LedgerAt(n - 1)'
                          /\ EntryCost(log'[n]) <= bp => ~ log'[n].raised
      ]_vars

\* a market Enter that the cash balance could pay was refused because of the
\* notional locked by a limit Enter buy order returned in the same step
C18_Witness ==
    /\ pc = "error"
    /\ err = "ValueError: Insufficient buying power"
    /\ log[Len(log)].raised
    /\ EntryCost(log[Len(log)]) <= log[Len(log)].before
    /\ \A k \in 1..Len(positions) : positions[k].quantity > 0
    /\ open_orders = SelectSeq(orders, is_limit)
    /\ open_orders # << >>

(***************************************************************************)
(* C19: limit fills                                                        *)
(***************************************************************************)
\* C19: a position opened by the limit pass has the limit price of its order
\* as entry_price and one closed by the limit pass has it as exit_price; the
\* time recorded is the timestamp of the step's next bar, the bar whose Low
\* (for a buy) or High (for a sell) met the condition of the order; that bar
\* comes after the bar of the step the order was returned in, and never is
\* bar 0.
C19_LimitFillsAtOwnPrice ==
    \A n \in 1..Len(log) :
        (~ log[n].market /\ log[n].pos # 0) =>
            /\ log[n].price = Val(log[n].order.price)
            /\ log[n].time = FillBar.name
            /\ FillBar.name > data[calls[Len(calls)].i + 1].name
            /\ ConditionOnBar(positions, log[n].order, FillBar)
            /\ IF log[n].order.action = "enter"
               THEN /\ positions[log[n].pos].entry_price = Val(log[n].order.price)
                    /\ positions[log[n].pos].entry_time = FillBar.name
               ELSE /\ positions[log[n].pos].exit_price = log[n].order.price
                    /\ positions[log[n].pos].exit_time = Some(FillBar.name)

\* a limit order that rested since an earlier step closed a position at its
\* limit price, which is no price of the bar
C19_Witness ==
    \E n \in 1..Len(log) :
        /\ ~ log[n].market /\ log[n].order.action = "exit" /\ log[n].pos # 0
        /\ \A k \in 1..Len(orders) : orders[k] # log[n].order
        /\ Val(positions[log[n].pos].exit_price)
              \notin { FillBar.Open, FillBar.High, FillBar.Low, FillBar.Close }

(***************************************************************************)
(* C20: position ids                                                       *)
(***************************************************************************)
\* C20: the k-th position of the ledger has the id k, so the ids are
\* pairwise distinct and an id names at most one position; and the positions
\* a step closed are no more than the Exit orders it fulfilled: each Exit
\* closed the one position it names, or none.
C20_PositionIdsDistinct ==
    /\ \A k \in 1..Len(positions) : positions[k].id = ToString(k)
    /\ \A k \in 1..Len(positions) : \A j \in 1..Len(positions) :
          positions[k].id = positions[j].id => k = j
    /\ \A id \in PositionIds :
          Cardinality({ k \in 1..Len(positions) : positions[k].id = id }) <= 1
    /\ log # << >> =>
          /\ Cardinality({ k \in 1..Len(positions) :
                              positions[k].exit_time = Some(FillBar.name) })
                <= Cardinality({ n \in 1..Len(log) : log[n].order.action = "exit" })
          /\ \A n \in 1..Len(log) :
                (log[n].order.action = "exit" /\ log[n].pos # 0) =>
                    /\ Some(positions[log[n].pos].id) = log[n].order.position_id
                    /\ \A m \in 1..Len(log) :
                          log[m].pos = log[n].pos =>
                              m = n \/ log[m].order.action = "enter"

\* with two open positions in the ledger an Exit order closed the one it
\* names and left the other open
C20_Witness ==
    /\ Len(positions) >= 2
    /\ \E n \in 1..Len(log) : \E k \in 1..Len(positions) :
          /\ log[n].order.action = "exit" /\ log[n].pos # 0 /\ log[n].pos # k
          /\ is_open(positions[k])
          /\ positions[k].entry_time < FillBar.name

(***************************************************************************)
(* C21: the cash_balance column                                            *)
(***************************************************************************)
\* C21: when run() has finished, the cash_balance column of the table is the
\* starting equity at bar 0, at bar t >= 1 the cash balance the engine had at
\* the end of step t-1, and at the last bar the cash balance the engine ends
\* with.
C21_CashColumnMatchesEngine ==
    pc = "done" =>
        /\ Len(pnl_df) = Len(data)
        /\ Len(step_cash) = Len(data) - 1
        /\ pnl_df[1].cash_balance = starting_equity
        /\ \A t \in 1..(Len(data) - 1) : pnl_df[t + 1].cash_balance = step_cash[t]
        /\ pnl_df[Len(data)].cash_balance = cash_balance

\* a run finished whose cash balance moved in each of two steps, with a
\* position closed before the last bar
C21_Witness ==
    /\ pc = "done"
    /\ step_cash[1] # starting_equity
    /\ step_cash[2] # step_cash[1]
    /\ \E k \in 1..Len(positions) :
          is_closed(positions[k]) /\ Val(positions[k].exit_time) < data[Len(data)].name

====
